---- MODULE Spec2Model ----
(***************************************************************************)
(* Clarify-then-RAG pipeline of langchain-app.                             *)
(*                                                                         *)
(*   src/app/retrieval.py    os_search, call_reranker                      *)
(*   src/app/chain.py        render_context                                *)
(*   src/app/main.py         FastAPI /query handler                        *)
(*   src/main.py             single-file variant: os_search, call_reranker,*)
(*                           build_gemini_prompt, /query handler           *)
(*   src/chainlit/cl_app.py  on_chat_start, on_chat_end, on_message        *)
(*                                                                         *)
(* Python strings are sequences of one-character strings, so that strip,   *)
(* startswith and slicing are computed as the code computes them.  Python  *)
(* dicts are functions whose DOMAIN is the set of keys present.            *)
(***************************************************************************)
EXTENDS Integers, Sequences, FiniteSets, TLC

VARIABLES
    program,       \* which entry point runs: "chainlit" | "app" | "legacy"
    ALWAYS_RAG,    \* cl_app.py:45, read from the environment at import
    top_k_cfg,     \* cl_app.py:42 DEFAULT_TOP_K, read from the environment
    http,          \* the module-level pooled client: "none" | "open"
    history,       \* cl.user_session "history" of the session
    pc,            \* position of the session's handler
    request,       \* the message (cl_app) or the request body (/query) in progress
    clar,          \* what clarifier.invoke did in this turn, if it was called
    q,             \* on_message local q
    final_query,   \* on_message local final_query
    history_text,  \* on_message local history_text
    raw,           \* candidates returned by os_search
    searched,      \* what os_client.search did in this turn: "none" | "ok" | "raise"
    rr,            \* what call_reranker did in this turn
    inflight,      \* the post to the scorer this turn awaits, or awaited
    reranked,      \* list returned by call_reranker
    context,       \* what render_context returned
    gen,           \* what the generation phase did in this turn
    sources,       \* source records handed to the client
    sent,          \* messages handed to the client in this turn, in order
    calls,         \* stages invoked in this turn, in order
    outcome,       \* how the turn ended
    fn             \* argument/result record of the function-level specifications

vars == << program, ALWAYS_RAG, top_k_cfg, http, history, pc, request, clar, q,
           final_query, history_text, raw, searched, rr, inflight, reranked,
           context, gen, sources, sent, calls, outcome, fn >>

-----------------------------------------------------------------------------
(* Bounds of the model                                                      *)

MaxHits == 3        \* longest hit list the index returns
MaxRanked == 2      \* longest ranked list the scorer returns
MaxTopK == 2        \* largest top_k
MaxTextLen == 4     \* longest document text in the truncation check
MaxLimit == 3       \* largest CONTEXT_CHARS_PER_DOC in the truncation check
MaxHistory == 1     \* a new turn starts only while the history is shorter

-----------------------------------------------------------------------------
(* Python values                                                            *)

\* Python None.  Real strings have one-character elements, so this value is
\* different from every string.
NoneVal == << "None" >>

\* A fixed literal such as "Untitled", kept as one token.
Lit(s) == << s >>

\* bool(v) for a string or None
Truthy(v) == v # NoneVal /\ v # << >>

\* d.get(k)
Get(d, k) == IF k \in DOMAIN d THEN d[k] ELSE NoneVal

\* d.get(k) or ""   (text-valued key)
GetStr(d, k) == IF k \in DOMAIN d /\ Truthy(d[k]) THEN d[k] ELSE << >>

\* {**item, **base}: the candidate's values win
MergeDicts_BaseWins(base, item) ==
    [k \in (DOMAIN base) \cup (DOMAIN item) |->
        IF k \in DOMAIN base THEN base[k] ELSE item[k]]

\* {**base, **item}
MergeDicts(base, item) ==
    [k \in (DOMAIN base) \cup (DOMAIN item) |->
        IF k \in DOMAIN item THEN item[k] ELSE base[k]]

Min(a, b) == IF a < b THEN a ELSE b
Max(a, b) == IF a > b THEN a ELSE b

IsSpace(c) == c = " "

RECURSIVE LStrip(_)
LStrip(s) == IF s # << >> /\ IsSpace(Head(s)) THEN LStrip(Tail(s)) ELSE s

\* str.rstrip()
RECURSIVE RStrip(_)
RStrip(s) ==
    IF s # << >> /\ IsSpace(s[Len(s)])
    THEN RStrip(SubSeq(s, 1, Len(s) - 1))
    ELSE s

\* str.strip()
Strip(s) == RStrip(LStrip(s))

\* s.startswith(p)
StartsWith(s, p) == Len(s) >= Len(p) /\ SubSeq(s, 1, Len(p)) = p

\* s[:n] for n >= 0
Take(s, n) == SubSeq(s, 1, Min(n, Len(s)))

\* s[n:] for n >= 0
Drop(s, n) == SubSeq(s, n + 1, Len(s))

\* [f(x) for x in s if keep(x)] is built from these two
RECURSIVE SelectIdx(_, _, _)
SelectIdx(s, keep, i) ==
    IF i > Len(s) THEN << >>
    ELSE IF i \in keep THEN << s[i] >> \o SelectIdx(s, keep, i + 1)
    ELSE SelectIdx(s, keep, i + 1)

\* the elements of s at the positions in keep, in order
Filter(s, keep) == SelectIdx(s, keep, 1)

Range(s) == { s[i] : i \in DOMAIN s }

\* all sequences over S of length 0..n
SeqsUpTo(S, n) == UNION { [1..m -> S] : m \in 0..n }

-----------------------------------------------------------------------------
(* The search index: what it holds and what it answers                      *)

\* _id of the documents of the index
HitIds == { "A", "B", "C", "D" }

\* the message of document B: a JSON object in a string
MsgJsonB == << "{", "b", "}" >>

\* further messages that are JSON: an object with text only, an object whose
\* abstract is blank, an empty object, and a list
MsgJsonT == << "{", "t", "}" >>
MsgJsonBlank == << "{", "s", "}" >>
MsgJsonEmpty == << "{", "}" >>
MsgJsonList == << "[", "]" >>

\* json.loads(s) on the message strings of the index
JsonLoads(s) ==
    CASE s = MsgJsonB ->
            [tag |-> "dict",
             v |-> [abstract |-> << "b", "a", "r" >>, pmid |-> << "2", "2" >>]]
      [] s = MsgJsonT -> [tag |-> "dict", v |-> [text |-> << " ", "t", "x" >>]]
      [] s = MsgJsonBlank ->
            [tag |-> "dict", v |-> [abstract |-> << " " >>, text |-> << "t", "x" >>]]
      [] s = MsgJsonEmpty -> [tag |-> "dict", v |-> << >>]
      [] s = MsgJsonList -> [tag |-> "list"]
      [] OTHER -> [tag |-> "error"]

\* _source of a hit under the _source filter of retrieval.py:156.
\*   A: structured fields     B: fields inside a JSON message
\*   C: plain-text message    D: blank abstract, no message
AppSource(id) ==
    CASE id = "A" -> [PMID |-> << "1", "1" >>, title |-> << "T", "a" >>,
                      abstract |-> << "f", "o", "o" >>]
      [] id = "B" -> [message |-> MsgJsonB]
      [] id = "C" -> [title |-> << " ", "T", "c" >>,
                      message |-> << " ", "b", "a", "z", " ", "q", "u", "x" >>]
      [] OTHER    -> [abstract |-> << " " >>]

\* _source of a hit under the _source filter of src/main.py:106
LegacySource(id) ==
    CASE id = "A" -> [text |-> << "f", "o", "o" >>, title |-> << "T", "a" >>,
                      url |-> Lit("http://a"),
                      metadata |-> [PMID |-> << "1", "1" >>]]
      [] id = "B" -> [text |-> << "b", "a", "r" >>]
      [] id = "C" -> [text |-> << " ", "b", "a", "z", " ", "q", "u", "x" >>,
                      title |-> << " ", "T", "c" >>]
      [] OTHER    -> [text |-> << " " >>]

\* _score of a document for the query: the index returns hits by descending
\* _score, so an answer lists documents in this order
HitOrder == << "A", "B", "C", "D" >>

ScoreOf(id) == 10 - 2 * (CHOOSE i \in DOMAIN HitOrder : HitOrder[i] = id)

Hit(prog, id) ==
    [_id |-> id, _score |-> ScoreOf(id),
     _source |-> IF prog = "legacy" THEN LegacySource(id) ELSE AppSource(id)]

\* the answers os_client.search can give: any at most MaxHits documents, best
\* first
HitLists(prog) ==
    { LET ids == Filter(HitOrder, { i \in DOMAIN HitOrder : HitOrder[i] \in S })
      IN  [i \in DOMAIN ids |-> Hit(prog, ids[i])] :
        S \in { T \in SUBSET HitIds : Cardinality(T) <= MaxHits } }

SearchAnswers(prog) ==
    { [tag |-> "raise"] } \cup { [tag |-> "ok", hits |-> h] : h \in HitLists(prog) }

-----------------------------------------------------------------------------
(* src/app/retrieval.py: helpers and os_search                              *)

\* a or b, for strings
OrStr(a, b) == IF Truthy(a) THEN a ELSE b

_parse_message_json(s) ==
    IF ~Truthy(s) THEN << >>
    ELSE LET t == Strip(s) IN
         IF t = << >> \/ t[1] \notin { "{", "[" } THEN << >>
         ELSE LET data == JsonLoads(t) IN
              IF data.tag = "dict" THEN data.v ELSE << >>

\* _pick_text trying the raw message before the structured abstract
_pick_text_MessageFirst(src) ==
    LET text1 == Strip(GetStr(src, "abstract"))
        msg == Get(src, "message")
    IN  IF msg # NoneVal /\ Strip(msg) # << >> THEN Strip(msg) ELSE text1

_pick_text(src) ==
    LET text1 == Strip(GetStr(src, "abstract"))
        msg == Get(src, "message")
        parsed == _parse_message_json(msg)
        text2 == Strip(OrStr(Get(parsed, "abstract"), GetStr(parsed, "text")))
    IN  IF text1 # << >> THEN text1
        ELSE IF text2 # << >> THEN text2
        ELSE IF msg # NoneVal THEN Strip(msg)
        ELSE << >>

_pick_title(src) ==
    LET title1 == Get(src, "title")
        title2 == Get(_parse_message_json(Get(src, "message")), "title")
    IN  IF title1 # NoneVal /\ Strip(title1) # << >> THEN Strip(title1)
        ELSE IF title2 # NoneVal /\ Strip(title2) # << >> THEN Strip(title2)
        ELSE NoneVal

_pick_pmid(src) ==
    LET pmid1 == Get(src, "PMID")
        parsed == _parse_message_json(Get(src, "message"))
        pmid2 == OrStr(Get(parsed, "PMID"), Get(parsed, "pmid"))
    IN  IF pmid1 # NoneVal THEN pmid1
        ELSE IF Truthy(pmid2) THEN pmid2
        ELSE NoneVal

\* the candidate built from one hit, retrieval.py:173-183
AppCandidate(h) ==
    [id |-> h._id, score |-> h._score, pmid |-> _pick_pmid(h._source),
     title |-> _pick_title(h._source), text |-> _pick_text(h._source),
     s3 |-> << >>]

\* os_search answering an error of the index with no candidates
os_search_SwallowsError(res) ==
    IF res.tag = "raise"
    THEN [tag |-> "ok", out |-> << >>]
    ELSE LET hits == res.hits
             keep == { i \in DOMAIN hits : _pick_text(hits[i]._source) # << >> }
             kept == Filter(hits, keep)
         IN  [tag |-> "ok", out |-> [i \in DOMAIN kept |-> AppCandidate(kept[i])]]

\* os_search of retrieval.py on the answer of the index
os_search(res) ==
    IF res.tag = "raise"
    THEN [tag |-> "raise", exc |-> "HTTPException 502 OpenSearch error"]
    ELSE LET hits == res.hits
             keep == { i \in DOMAIN hits : _pick_text(hits[i]._source) # << >> }
             kept == Filter(hits, keep)
         IN  [tag |-> "ok", out |-> [i \in DOMAIN kept |-> AppCandidate(kept[i])]]

-----------------------------------------------------------------------------
(* src/main.py: os_search                                                   *)

LegacyCandidate(h) ==
    [id |-> h._id, score |-> h._score, text |-> Strip(GetStr(h._source, "text")),
     title |-> Get(h._source, "title"), url |-> Get(h._source, "url"),
     metadata |-> IF "metadata" \in DOMAIN h._source
                  THEN h._source.metadata ELSE << >>]

legacy_os_search(res) ==
    IF res.tag = "raise"
    THEN [tag |-> "raise", exc |-> "HTTPException 502 OpenSearch error"]
    ELSE LET hits == res.hits
             keep == { i \in DOMAIN hits :
                         Strip(GetStr(hits[i]._source, "text")) # << >> }
             kept == Filter(hits, keep)
         IN  [tag |-> "ok", out |-> [i \in DOMAIN kept |-> LegacyCandidate(kept[i])]]

search_of(prog, res) ==
    IF prog = "legacy" THEN legacy_os_search(res) ELSE os_search(res)

-----------------------------------------------------------------------------
(* The scorer: what http.post(RERANKER_URL) can answer                      *)

\* ids the scorer may name: ids of the batch and one that is in no batch
ScorerIds == { "A", "B", "Z" }

\* entries of a ranked list that follow the contract {"id": .., "score": ..}
RankedEntries == { [id |-> i, score |-> 50] : i \in ScorerIds }

\* an element of the list that is not a JSON object: item.get raises on it
JunkEntry == [nondict |-> TRUE]

IsDict(item) == "nondict" \notin DOMAIN item

\* ranked lists: well-formed ones, and ones with an element that is no object
RankedLists == SeqsUpTo(RankedEntries \cup { JunkEntry }, MaxRanked)

\* r.json() of a 200 answer: the body is no JSON at all, or it is an object
\* that has the list under "reranked", under "results", under "results" with
\* an empty "reranked", or under neither key
JsonBodies ==
    { [json |-> FALSE] }
      \cup { [json |-> TRUE, data |-> [reranked |-> l]] : l \in RankedLists }
      \cup { [json |-> TRUE, data |-> [results |-> l]] : l \in RankedLists \ { << >> } }
      \cup { [json |-> TRUE, data |-> [reranked |-> << >>, results |-> l]] :
                l \in RankedLists \ { << >> } }
      \cup { [json |-> TRUE, data |-> << >>] }

\* what the post does: it raises (transport failure), or it returns a response
ScorerAnswers ==
    { [tag |-> "raise"] }
      \cup { [tag |-> "response", status_code |-> 500, body |-> [json |-> FALSE]] }
      \cup { [tag |-> "response", status_code |-> 200, body |-> b] : b \in JsonBodies }

\* data.get(k) or <rest>, for list-valued keys of the scorer's answer
GetList(data, k) == IF k \in DOMAIN data THEN data[k] ELSE << >>

\* data.get("reranked") or data.get("results") or []
RankedOf(data) ==
    IF GetList(data, "reranked") # << >> THEN GetList(data, "reranked")
    ELSE GetList(data, "results")

\* by_id = {p.get("id"): p for p in passages if p.get("id") is not None}:
\* the last passage with that id
ById(passages, id) ==
    passages[CHOOSE i \in DOMAIN passages :
                /\ passages[i].id = id
                /\ \A j \in DOMAIN passages : passages[j].id = id => j <= i]

InBatch(passages, item) ==
    "id" \in DOMAIN item /\ \E i \in DOMAIN passages : passages[i].id = item.id

-----------------------------------------------------------------------------
(* src/app/retrieval.py: call_reranker                                      *)

\* the merge loop, retrieval.py:217-223: entries with no candidate are skipped
MergeKnown(passages, items) ==
    LET keep == { i \in DOMAIN items : InBatch(passages, items[i]) }
        kept == Filter(items, keep)
    IN  [i \in DOMAIN kept |-> MergeDicts(ById(passages, kept[i].id), kept[i])]

\* the merged list returned as it is, without the fallback
OrPassThrough_NoFallback(merged, passages, top_k) == merged

\* merged or passages[:top_k], retrieval.py:226
OrPassThrough(merged, passages, top_k) ==
    IF merged # << >> THEN merged ELSE Take(passages, top_k)

\* call_reranker without the early return of lines 194-195: the scorer is
\* asked about an empty batch too
call_reranker_PostsOnEmpty(passages, top_k, ans) ==
    IF ans.tag = "raise"
    THEN [tag |-> "raise", exc |-> "HTTPException 502 Reranker request failed",
          posts |-> 1]
    ELSE IF ans.status_code # 200
    THEN [tag |-> "raise", exc |-> "HTTPException 502 Reranker error", posts |-> 1]
    ELSE IF ~ans.body.json
    THEN [tag |-> "raise", exc |-> "JSONDecodeError", posts |-> 1]
    ELSE LET items == Take(RankedOf(ans.body.data), top_k) IN
         IF \E i \in DOMAIN items : ~IsDict(items[i])
         THEN [tag |-> "raise", exc |-> "AttributeError", posts |-> 1]
         ELSE LET merged == MergeKnown(passages, items) IN
              [tag |-> "ok", docs |-> OrPassThrough(merged, passages, top_k),
               posts |-> 1,
               path |-> IF merged # << >> THEN "merge" ELSE "fallback"]

\* call_reranker with a failed post answered by the first top_k candidates
call_reranker_TransportFallback(passages, top_k, ans) ==
    IF passages = << >>
    THEN [tag |-> "ok", docs |-> << >>, posts |-> 0, path |-> "empty"]
    ELSE IF ans.tag = "raise"
    THEN [tag |-> "ok", docs |-> Take(passages, top_k), posts |-> 1,
          path |-> "fallback"]
    ELSE IF ans.status_code # 200
    THEN [tag |-> "raise", exc |-> "HTTPException 502 Reranker error", posts |-> 1]
    ELSE IF ~ans.body.json
    THEN [tag |-> "raise", exc |-> "JSONDecodeError", posts |-> 1]
    ELSE LET items == Take(RankedOf(ans.body.data), top_k) IN
         IF \E i \in DOMAIN items : ~IsDict(items[i])
         THEN [tag |-> "raise", exc |-> "AttributeError", posts |-> 1]
         ELSE LET merged == MergeKnown(passages, items) IN
              [tag |-> "ok", docs |-> OrPassThrough(merged, passages, top_k),
               posts |-> 1,
               path |-> IF merged # << >> THEN "merge" ELSE "fallback"]

\* call_reranker with a non-200 answer answered by the first top_k candidates
call_reranker_StatusFallback(passages, top_k, ans) ==
    IF passages = << >>
    THEN [tag |-> "ok", docs |-> << >>, posts |-> 0, path |-> "empty"]
    ELSE IF ans.tag = "raise"
    THEN [tag |-> "raise", exc |-> "HTTPException 502 Reranker request failed",
          posts |-> 1]
    ELSE IF ans.status_code # 200
    THEN [tag |-> "ok", docs |-> Take(passages, top_k), posts |-> 1,
          path |-> "fallback"]
    ELSE IF ~ans.body.json
    THEN [tag |-> "raise", exc |-> "JSONDecodeError", posts |-> 1]
    ELSE LET items == Take(RankedOf(ans.body.data), top_k) IN
         IF \E i \in DOMAIN items : ~IsDict(items[i])
         THEN [tag |-> "raise", exc |-> "AttributeError", posts |-> 1]
         ELSE LET merged == MergeKnown(passages, items) IN
              [tag |-> "ok", docs |-> OrPassThrough(merged, passages, top_k),
               posts |-> 1,
               path |-> IF merged # << >> THEN "merge" ELSE "fallback"]

\* call_reranker(http, query, passages, top_k) given what the post answers.
\* posts counts the requests sent; path names the branch that returned.
call_reranker(passages, top_k, ans) ==
    IF passages = << >>
    THEN [tag |-> "ok", docs |-> << >>, posts |-> 0, path |-> "empty"]
    ELSE IF ans.tag = "raise"
    THEN [tag |-> "raise", exc |-> "HTTPException 502 Reranker request failed",
          posts |-> 1]
    ELSE IF ans.status_code # 200
    THEN [tag |-> "raise", exc |-> "HTTPException 502 Reranker error", posts |-> 1]
    ELSE IF ~ans.body.json
    THEN [tag |-> "raise", exc |-> "JSONDecodeError", posts |-> 1]
    ELSE LET items == Take(RankedOf(ans.body.data), top_k) IN
         IF \E i \in DOMAIN items : ~IsDict(items[i])
         THEN [tag |-> "raise", exc |-> "AttributeError", posts |-> 1]
         ELSE LET merged == MergeKnown(passages, items) IN
              [tag |-> "ok", docs |-> OrPassThrough(merged, passages, top_k),
               posts |-> 1,
               path |-> IF merged # << >> THEN "merge" ELSE "fallback"]

-----------------------------------------------------------------------------
(* src/main.py: call_reranker                                               *)

\* the merge loop, src/main.py:151-156: an entry with no candidate is kept as
\* it came ({**{}, **item})
MergeAll(passages, items) ==
    [i \in DOMAIN items |->
        IF InBatch(passages, items[i])
        THEN MergeDicts(ById(passages, items[i].id), items[i])
        ELSE items[i]]

\* call_reranker(query, passages, top_k) of src/main.py; client is the module's
\* http at the time of the call
legacy_call_reranker(passages, top_k, ans, client) ==
    IF passages = << >>
    THEN [tag |-> "ok", docs |-> << >>, posts |-> 0, path |-> "empty"]
    ELSE IF client = "none"
    THEN [tag |-> "raise", exc |-> "AssertionError", posts |-> 0]
    ELSE IF ans.tag = "raise"
    THEN [tag |-> "raise", exc |-> "httpx.TransportError", posts |-> 1]
    ELSE IF ans.status_code # 200
    THEN [tag |-> "raise", exc |-> "HTTPException 502 Reranker error", posts |-> 1]
    ELSE IF ~ans.body.json
    THEN [tag |-> "raise", exc |-> "JSONDecodeError", posts |-> 1]
    ELSE LET items == Take(RankedOf(ans.body.data), top_k) IN
         IF \E i \in DOMAIN items : ~IsDict(items[i])
         THEN [tag |-> "raise", exc |-> "AttributeError", posts |-> 1]
         ELSE LET out == MergeAll(passages, items) IN
              [tag |-> "ok", docs |-> OrPassThrough(out, passages, top_k),
               posts |-> 1,
               path |-> IF out # << >> THEN "merge" ELSE "fallback"]

\* the call_reranker of the program
rerank_of(prog, passages, top_k, ans, client) ==
    IF prog = "legacy" THEN legacy_call_reranker(passages, top_k, ans, client)
    ELSE call_reranker(passages, top_k, ans)

-----------------------------------------------------------------------------
(* src/app/chain.py: render_context                                         *)

\* default of CONTEXT_CHARS_PER_DOC
CONTEXT_CHARS_PER_DOC == 1200

\* the one-character string U+2026
ELLIPSIS == "..."

\* f"https://pubmed.ncbi.nlm.nih.gov/{pmid}/"
PubmedUrl(pmid) == << "https://pubmed.ncbi.nlm.nih.gov/" >> \o pmid \o << "/" >>

\* chain.py:94-95
Truncate(text, max_chars) ==
    IF max_chars # 0 /\ Len(text) > max_chars
    THEN RStrip(Take(text, max_chars)) \o << ELLIPSIS >>
    ELSE text

\* d.get("metadata") or {}
MetaOf(d) == IF "metadata" \in DOMAIN d THEN d.metadata ELSE << >>

\* meta.get("PMID") or meta.get("pmid") or d.get("PMID"), chain.py:88
ContextPmid(d) ==
    OrStr(Get(MetaOf(d), "PMID"), OrStr(Get(MetaOf(d), "pmid"), Get(d, "PMID")))

\* chain.py:89-91
ContextUrl(d) ==
    Strip(IF Truthy(Get(d, "url")) THEN d.url
          ELSE IF Truthy(ContextPmid(d)) THEN PubmedUrl(ContextPmid(d))
          ELSE << >>)

\* the block numbered from 0: enumerate(docs) without start=1
ContextBlock_ZeroBased(i, d, max_chars) ==
    [num |-> i - 1,
     title |-> Strip(OrStr(Get(d, "title"), Lit("Untitled"))),
     pmid |-> IF Truthy(ContextPmid(d)) THEN ContextPmid(d) ELSE << >>,
     url |-> ContextUrl(d),
     text |-> Truncate(Strip(GetStr(d, "text")), max_chars)]

\* one "[i] title (PMID: ..) url \n text" block, chain.py:85-103.  The header
\* keeps its parts apart; pmid and url are << >> when the header has none.
ContextBlock(i, d, max_chars) ==
    [num |-> i,
     title |-> Strip(OrStr(Get(d, "title"), Lit("Untitled"))),
     pmid |-> IF Truthy(ContextPmid(d)) THEN ContextPmid(d) ELSE << >>,
     url |-> ContextUrl(d),
     text |-> Truncate(Strip(GetStr(d, "text")), max_chars)]

\* render_context leaving out the documents that have no title
render_context_SkipsUntitled(docs, max_chars) ==
    LET kept == Filter(docs, { i \in DOMAIN docs : Truthy(Get(docs[i], "title")) })
    IN  [i \in DOMAIN kept |-> ContextBlock(i, kept[i], max_chars)]

\* render_context(docs) with CONTEXT_CHARS_PER_DOC = max_chars: the blocks that
\* "\n".join(lines) joins, in order
render_context(docs, max_chars) ==
    [i \in DOMAIN docs |-> ContextBlock(i, docs[i], max_chars)]

-----------------------------------------------------------------------------
(* src/main.py: build_gemini_prompt                                         *)

\* one "[i] title url \n text" block, src/main.py:165-168
PromptBlock(i, d) ==
    [num |-> i,
     title |-> Strip(GetStr(d, "title")),
     pmid |-> << >>,
     url |-> Strip(GetStr(d, "url")),
     text |-> d.text]

\* d['text'] raises KeyError when a merged entry has no text
build_gemini_prompt(docs) ==
    IF \E i \in DOMAIN docs : "text" \notin DOMAIN docs[i]
    THEN [tag |-> "raise", exc |-> "KeyError"]
    ELSE [tag |-> "ok", blocks |-> [i \in DOMAIN docs |-> PromptBlock(i, docs[i])]]

-----------------------------------------------------------------------------
(* Source records                                                           *)

\* _to_source_shape, cl_app.py:85-101
_to_source_shape(d) ==
    LET pmid == OrStr(Get(d, "pmid"), Get(d, "PMID"))
        url == IF Truthy(Get(d, "url")) THEN d.url
               ELSE IF Truthy(pmid) THEN PubmedUrl(pmid)
               ELSE NoneVal
        text == Get(d, "text")
        text_shaped == IF Truthy(text) /\ Len(text) > 500
                       THEN Take(text, 250) \o << ELLIPSIS >>
                       ELSE text
    IN  [id |-> Get(d, "id"), score |-> Get(d, "score"), title |-> Get(d, "title"),
         text |-> text_shaped, pmid |-> pmid, s3 |-> Get(d, "s3"), url |-> url,
         metadata |-> MetaOf(d)]

\* the source dict of src/app/main.py:59-74
AppSourceItem(d) ==
    LET t == Get(d, "text") IN
    [id |-> Get(d, "id"), score |-> Get(d, "score"), title |-> Get(d, "title"),
     text |-> IF Truthy(t) /\ Len(t) > 500 THEN Take(t, 500) \o << ELLIPSIS >> ELSE t,
     pmid |-> Get(d, "pmid"), s3 |-> Get(d, "s3"),
     url |-> IF Truthy(Get(d, "url")) THEN d.url
             ELSE IF Truthy(Get(d, "pmid")) THEN PubmedUrl(d.pmid)
             ELSE NoneVal]

\* the source dict of src/main.py:203-209
LegacySourceItem(d) ==
    [id |-> Get(d, "id"), score |-> Get(d, "score"), title |-> Get(d, "title"),
     url |-> Get(d, "url"), metadata |-> Get(d, "metadata")]

-----------------------------------------------------------------------------
(* src/chainlit/cl_app.py: configuration and helpers                        *)

DEFAULT_K == 50
CHAT_HISTORY_TURNS == 6

\* READY_PREFIX, default "READY:"
READY_PREFIX == << "R", "E", "A", "D", "Y", ":" >>

\* the slash command "/rag "
RAG_COMMAND == << "/", "r", "a", "g", " " >>

_cap(n, lo, hi) == Max(lo, Min(n, hi))

\* _shorten(text, max_len); the suffix is the literal of cl_app.py:64
_shorten(text, max_len) ==
    IF text = << >> THEN << >>
    ELSE LET t == Strip(text) IN
         IF Len(t) > max_len THEN Take(t, max_len - 1) \o << ELLIPSIS >> ELSE t

\* history[:turns * 2]: the oldest entries instead of the most recent
LastEntries_Oldest(hist, turns) ==
    IF turns > 0 THEN SubSeq(hist, 1, Min(Len(hist), 2 * turns)) ELSE << >>

\* history[-(turns * 2):] if turns > 0 else []
LastEntries(hist, turns) ==
    IF turns > 0
    THEN SubSeq(hist, Max(1, Len(hist) - 2 * turns + 1), Len(hist))
    ELSE << >>

\* _format_history: the "role: content" lines that "\n".join joins
_format_history(hist, turns) ==
    LET trimmed == LastEntries(hist, turns) IN
    [i \in DOMAIN trimmed |->
        [role |-> trimmed[i].role, content |-> _shorten(trimmed[i].content, 1500)]]

\* "".join(chunks)
RECURSIVE Join(_)
Join(chunks) == IF chunks = << >> THEN << >> ELSE Head(chunks) \o Join(Tail(chunks))

\* the non-empty tokens of a stream, in order (cl_app.py:288-292)
NonEmpty(chunks) == Filter(chunks, { i \in DOMAIN chunks : chunks[i] # << >> })

\* nothing generated, no clarifier call, in this turn
NoGen == [tag |-> "none"]
NoClar == [tag |-> "none"]

\* no post to the scorer in this turn
NoPost == [tag |-> "none"]

UserTurn(text) == [role |-> "user", content |-> text]
AssistantTurn(text) == [role |-> "assistant", content |-> text]

Message(text) == [type |-> "message", content |-> text]

-----------------------------------------------------------------------------
(* What the user and the language model can do                              *)

\* message.content: empty, blank, plain text, the slash command with a query,
\* and the slash command followed by nothing
Utterances ==
    { << >>, << " " >>, << "h", "i", " " >>,
      << "/", "r", "a", "g", " ", "q" >>,
      << "/", "r", "a", "g", " " >> }

\* clarifier.invoke: it raises, or returns text: nothing, a question, the
\* marker with a query, the marker alone, the marker not at the start
ClarifierAnswers ==
    { [tag |-> "raise"] } \cup
    { [tag |-> "ok", text |-> t] :
        t \in { << >>,
                << "o", "k", "?" >>,
                << " " >> \o READY_PREFIX \o << " ", "x", " " >>,
                READY_PREFIX \o << " " >>,
                << "a", " " >> \o READY_PREFIX } }

\* chain.stream: the chunks it yields (after _ensure_text), and whether it
\* raises after them
StreamTokens == { << >>, << "x" >> }
MaxChunks == 1
StreamAnswers ==
    { [chunks |-> c, raised |-> r] :
        c \in SeqsUpTo(StreamTokens, MaxChunks), r \in BOOLEAN }

\* chain.invoke: it raises, or returns text (possibly empty)
InvokeAnswers ==
    { [tag |-> "raise"] } \cup { [tag |-> "ok", text |-> t] : t \in { << >>, << "z" >> } }

-----------------------------------------------------------------------------
(* src/chainlit/cl_app.py: on_message, one operator per phase.  Each returns *)
(* the values the phase leaves behind.                                      *)

\* clarifier_out.startswith(READY_PREFIX), line 207
IsReady(clarifier_out) == StartsWith(clarifier_out, READY_PREFIX)

\* clarifier_out[len(READY_PREFIX):].strip(), without the "or q"
ReadyQuery_NoFallback(clarifier_out, q0) ==
    Strip(Drop(clarifier_out, Len(READY_PREFIX)))

\* clarifier_out[len(READY_PREFIX):].strip() or q, line 208
ReadyQuery(clarifier_out, q0) ==
    OrStr(Strip(Drop(clarifier_out, Len(READY_PREFIX))), q0)

\* q.startswith("/rag "), line 197
IsSlash(q0) == StartsWith(q0, RAG_COMMAND)

\* q[len("/rag "):].strip() or q, line 198
SlashQuery(q0) == OrStr(Strip(Drop(q0, Len(RAG_COMMAND))), q0)

\* lines 180-227: the clarifier phase.  c is message.content, ans what
\* clarifier.invoke does if it is called.
ClarifyPhase(c, hist, always_rag, ans) ==
    LET q0 == Strip(c)
        htext == _format_history(hist, CHAT_HISTORY_TURNS)
        slash == IsSlash(q0)
        invoked == ~slash /\ ~always_rag
        clarifier_out == IF ans.tag = "raise" THEN << >> ELSE Strip(ans.text)
        ready == invoked /\ IsReady(clarifier_out)
        fq == IF slash THEN SlashQuery(q0)
              ELSE IF ready THEN ReadyQuery(clarifier_out, q0)
              ELSE q0
        do_search == always_rag \/ slash \/ ready
    IN  IF q0 = << >>
        THEN [pc |-> "done", outcome |-> "empty_message", q |-> q0,
              final_query |-> << >>, history_text |-> << >>, calls |-> << >>,
              clar |-> NoClar,
              sent |-> << Message(Lit("Ask me something!")) >>, history |-> hist]
        ELSE IF invoked /\ ~ready /\ clarifier_out # << >>
        THEN [pc |-> "done", outcome |-> "clarifying", q |-> q0,
              final_query |-> q0, history_text |-> htext,
              calls |-> << "clarifier" >>, clar |-> ans,
              sent |-> << Message(clarifier_out) >>,
              history |-> hist \o << UserTurn(q0), AssistantTurn(clarifier_out) >>]
        ELSE IF ~do_search
        THEN [pc |-> "done", outcome |-> "clarify_fallback", q |-> q0,
              final_query |-> q0, history_text |-> htext,
              calls |-> << "clarifier" >>, clar |-> ans,
              sent |-> << Message(Lit("Could you clarify a bit more?")) >>,
              history |-> hist]
        ELSE [pc |-> "search", outcome |-> "none", q |-> q0,
              final_query |-> fq, history_text |-> htext,
              calls |-> IF invoked THEN << "clarifier" >> ELSE << >>,
              clar |-> IF invoked THEN ans ELSE NoClar,
              sent |-> << >>, history |-> hist]

\* the search step without the test of lines 245-250
SearchPhase_NoEmptyCheck(q0, hist, res) ==
    LET r == os_search(res) IN
    IF r.tag = "raise"
    THEN [pc |-> "done", outcome |-> "search_error", raw |-> << >>,
          searched |-> res.tag,
          sent |-> << Message(Lit("Search error")) >>, history |-> hist]
    ELSE [pc |-> "rerank", outcome |-> "none", raw |-> r.out, sent |-> << >>,
          searched |-> res.tag,
          history |-> hist]

\* the search step without the history.append of line 248
SearchPhase_ForgetsUser(q0, hist, res) ==
    LET r == os_search(res) IN
    IF r.tag = "raise"
    THEN [pc |-> "done", outcome |-> "search_error", raw |-> << >>,
          searched |-> res.tag,
          sent |-> << Message(Lit("Search error")) >>, history |-> hist]
    ELSE IF r.out = << >>
    THEN [pc |-> "done", outcome |-> "no_results", raw |-> << >>,
          searched |-> res.tag,
          sent |-> << Message(Lit("I couldn't find anything relevant.")) >>,
          history |-> hist]
    ELSE [pc |-> "rerank", outcome |-> "none", raw |-> r.out, sent |-> << >>,
          searched |-> res.tag,
          history |-> hist]

\* the search step storing a new list instead of appending to the session's
SearchPhase_ResetsHistory(q0, hist, res) ==
    LET r == os_search(res) IN
    IF r.tag = "raise"
    THEN [pc |-> "done", outcome |-> "search_error", raw |-> << >>,
          searched |-> res.tag,
          sent |-> << Message(Lit("Search error")) >>, history |-> hist]
    ELSE IF r.out = << >>
    THEN [pc |-> "done", outcome |-> "no_results", raw |-> << >>,
          searched |-> res.tag,
          sent |-> << Message(Lit("I couldn't find anything relevant.")) >>,
          history |-> << UserTurn(q0) >>]
    ELSE [pc |-> "rerank", outcome |-> "none", raw |-> r.out, sent |-> << >>,
          searched |-> res.tag,
          history |-> hist]

\* the search step recording the user's message before it reports the error
SearchPhase_RecordsOnError(q0, hist, res) ==
    LET r == os_search(res) IN
    IF r.tag = "raise"
    THEN [pc |-> "done", outcome |-> "search_error", raw |-> << >>,
          searched |-> res.tag,
          sent |-> << Message(Lit("Search error")) >>,
          history |-> Append(hist, UserTurn(q0))]
    ELSE IF r.out = << >>
    THEN [pc |-> "done", outcome |-> "no_results", raw |-> << >>,
          searched |-> res.tag,
          sent |-> << Message(Lit("I couldn't find anything relevant.")) >>,
          history |-> Append(hist, UserTurn(q0))]
    ELSE [pc |-> "rerank", outcome |-> "none", raw |-> r.out, sent |-> << >>,
          searched |-> res.tag,
          history |-> hist]

\* lines 230-250: the search step.  res is what os_client.search does.
SearchPhase(q0, hist, res) ==
    LET r == os_search(res) IN
    IF r.tag = "raise"
    THEN [pc |-> "done", outcome |-> "search_error", raw |-> << >>,
          searched |-> res.tag,
          sent |-> << Message(Lit("Search error")) >>, history |-> hist]
    ELSE IF r.out = << >>
    THEN [pc |-> "done", outcome |-> "no_results", raw |-> << >>,
          searched |-> res.tag,
          sent |-> << Message(Lit("I couldn't find anything relevant.")) >>,
          history |-> Append(hist, UserTurn(q0))]
    ELSE [pc |-> "rerank", outcome |-> "none", raw |-> r.out, sent |-> << >>,
          searched |-> res.tag,
          history |-> hist]

\* what a turn keeps of a call of call_reranker: the result without the
\* documents, the kind of answer the scorer gave, and the client used
RerankRecord(ret, ans, client) ==
    [tag |-> ret.tag, posts |-> ret.posts,
     path |-> IF ret.tag = "ok" THEN ret.path ELSE ret.exc,
     answer |-> IF ans.tag = "raise" THEN "transport_error"
                ELSE IF ans.status_code # 200 THEN "non_200"
                ELSE "200",
     client |-> client]

\* lines 256-262: the client call_reranker is given, the module's http or, when
\* that is None, a temporary one; the call then awaits the post
PostBegin(client) ==
    [tag |-> "pending", client |-> IF client = "none" THEN "temp" ELSE "pooled",
     closed |-> FALSE, lost |-> FALSE]

\* on_chat_end of another session runs while the post is awaited: http.aclose()
\* of line 154 closes the client the call holds, if that is the module's
ClosedUnder(post) ==
    IF post.tag = "pending" /\ post.client = "pooled"
    THEN [post EXCEPT !.closed = TRUE]
    ELSE post

\* what the awaited post does when the scorer would answer ans: on a client
\* closed under it the post may still return the answer, or raise
PostOutcomes(post, ans) ==
    IF post.closed THEN { ans, [tag |-> "raise"] } ELSE { ans }

\* lines 253-272: the rerank step.  used is the client of the call, ans what
\* its post did.
RerankPhase(passages, top_k_env, used, ans) ==
    LET k == _cap(DEFAULT_K, 1, 200)
        top_k == _cap(top_k_env, 1, k)
        ret == call_reranker(passages, top_k, ans)
        rec == RerankRecord(ret, ans, used)
    IN  IF ret.tag = "raise"
        THEN [pc |-> "done", outcome |-> "rerank_error", rr |-> rec,
              reranked |-> << >>, sent |-> << Message(Lit("Reranker error")) >>]
        ELSE [pc |-> "answer", outcome |-> "none", rr |-> rec,
              reranked |-> ret.docs, sent |-> << >>]

\* the dict handed to chain.stream and to chain.invoke, cl_app.py:286 and 297
ChainInput(fq, ctx, htext) == [question |-> fq, context |-> ctx, history |-> htext]

\* the fallback's result added to the streamed chunks instead of replacing them
AnswerChunks_KeepsStreamed(tokens, fell_back, full_text) ==
    IF fell_back THEN Append(tokens, full_text) ELSE tokens

\* chunks when the generation is over: the streamed tokens, or the fallback's
\* text alone (chunks = [full_text], cl_app.py:302)
AnswerChunks(tokens, fell_back, full_text) ==
    IF fell_back THEN << full_text >> ELSE tokens

\* lines 275-325: context, streamed answer with its fallback, history, sources.
\* so is what chain.stream does, fb what chain.invoke does if it is called.
AnswerPhase(q0, fq, htext, hist, docs, so, fb) ==
    LET ctx == render_context(docs, CONTEXT_CHARS_PER_DOC)
        tokens == NonEmpty(so.chunks)
        fell == so.raised
        failed == fell /\ fb.tag = "raise"
        emitted == IF fell /\ ~failed THEN Append(tokens, fb.text) ELSE tokens
        streamed_any == (fell /\ ~failed) \/ tokens # << >>
        chunks == AnswerChunks(tokens, fell /\ ~failed,
                               IF fell /\ ~failed THEN fb.text ELSE << >>)
        text == IF failed THEN Lit("LLM error")
                ELSE IF ~streamed_any THEN Lit("(No answer)")
                ELSE Join(chunks)
        final_sources == [i \in DOMAIN docs |-> _to_source_shape(docs[i])]
        g == [tag |-> IF failed THEN "raise" ELSE "ok", emitted |-> emitted,
              stream_raised |-> fell,
              fallback |-> IF ~fell THEN "none" ELSE fb.tag,
              fallback_text |-> IF fell /\ ~failed THEN fb.text ELSE NoneVal,
              stream_in |-> ChainInput(fq, ctx, htext),
              invoke_in |-> IF fell THEN ChainInput(fq, ctx, htext) ELSE NoneVal,
              content |-> text]
        stages == << "render", "stream" >> \o (IF fell THEN << "invoke" >> ELSE << >>)
    IN  IF failed
        THEN [pc |-> "done", outcome |-> "llm_error", context |-> ctx, gen |-> g,
              calls |-> stages, history |-> hist, sources |-> << >>,
              sent |-> << Message(text) >>]
        ELSE [pc |-> "done", outcome |-> "answered", context |-> ctx, gen |-> g,
              calls |-> stages \o (IF docs # << >> THEN << "sources" >> ELSE << >>),
              history |-> hist \o << UserTurn(q0), AssistantTurn(text) >>,
              sources |-> IF docs # << >> THEN final_sources ELSE << >>,
              sent |-> << Message(text) >> \o
                       (IF docs # << >>
                        THEN << [type |-> "sources", elements |-> final_sources] >>
                        ELSE << >>)]

-----------------------------------------------------------------------------
(* The /query handlers of src/app/main.py and src/main.py                   *)

\* request bodies: an empty, a blank and a plain question, k and top_k inside
\* and outside the ranges of QueryRequest
Requests ==
    { [question |-> qu, k |-> kk, top_k |-> t] :
        qu \in { << >>, << " " >>, << "h", "i" >> }, kk \in { 0, 25, 201 },
        t \in (0..MaxTopK) \cup { 51 } }

\* QueryRequest of src/app/schemas.py:5-10
ValidRequest(req) ==
    Len(req.question) >= 1 /\ req.k >= 1 /\ req.k <= 200
        /\ req.top_k >= 1 /\ req.top_k <= 50

\* QueryRequest of src/main.py:63-66
LegacyValidRequest(req) ==
    Len(req.question) >= 1 /\ req.k >= 1 /\ req.k <= 100
        /\ req.top_k >= 1 /\ req.top_k <= 50


\* gen of a blocking generation call
Blocking(tag, text) ==
    [tag |-> tag, emitted |-> << >>, stream_raised |-> FALSE,
     fallback |-> "none", content |-> text]

\* an error response of FastAPI
ErrorResponse(how) == << [type |-> "error", detail |-> how] >>

\* a 200 response
Response(answer, srcs) ==
    << [type |-> "response", answer |-> answer, sources |-> srcs] >>

\* the exceptions FastAPI turns into the handler's own 502
RerankOutcome(ret) ==
    IF ret.exc \in { "HTTPException 502 Reranker request failed",
                     "HTTPException 502 Reranker error" }
    THEN "rerank_error" ELSE "internal_error"

\* query of src/app/main.py, lines 35-46: validation by QueryRequest, the caps,
\* the search, the empty answer and the check of the pooled client
query_search(req, client, res) ==
    IF ~ValidRequest(req)
    THEN [pc |-> "done", outcome |-> "validation_error", calls |-> << >>,
          raw |-> << >>, searched |-> "none",
          sent |-> ErrorResponse("validation_error")]
    ELSE
    LET k == Max(1, Min(req.k, 200))
        found == os_search(res)
    IN  IF found.tag = "raise"
        THEN [pc |-> "done", outcome |-> "search_error", calls |-> << "search" >>,
              raw |-> << >>, searched |-> res.tag,
              sent |-> ErrorResponse("search_error")]
        ELSE IF found.out = << >>
        THEN [pc |-> "done", outcome |-> "no_results", calls |-> << "search" >>,
              raw |-> << >>, searched |-> res.tag,
              sent |-> Response(Lit("I couldn't find anything relevant."), << >>)]
        ELSE IF client = "none"
        THEN [pc |-> "done", outcome |-> "not_ready", calls |-> << "search" >>,
              raw |-> found.out, searched |-> res.tag,
              sent |-> ErrorResponse("not_ready")]
        ELSE [pc |-> "rerank", outcome |-> "none", calls |-> << "search" >>,
              raw |-> found.out, searched |-> res.tag, sent |-> << >>]

\* query of src/app/main.py, line 48
query_rerank(req, passages, ans) ==
    LET k == Max(1, Min(req.k, 200))
        top_k == Max(1, Min(req.top_k, k))
        ret == call_reranker(passages, top_k, ans)
        rec == RerankRecord(ret, ans, "pooled")
    IN  IF ret.tag = "raise"
        THEN [pc |-> "done", outcome |-> RerankOutcome(ret), rr |-> rec,
              reranked |-> << >>, sent |-> ErrorResponse(RerankOutcome(ret))]
        ELSE [pc |-> "answer", outcome |-> "none", rr |-> rec,
              reranked |-> ret.docs, sent |-> << >>]

\* query building the sources before the context and the generation
query_answer_SourcesFirst(docs, llm) ==
    LET ctx == render_context(docs, CONTEXT_CHARS_PER_DOC) IN
    IF llm.tag = "raise"
    THEN [outcome |-> "llm_error", calls |-> << "sources", "render", "invoke" >>,
          context |-> ctx, gen |-> Blocking("raise", << >>), sources |-> << >>,
          sent |-> ErrorResponse("llm_error")]
    ELSE LET answer == Strip(llm.text)
             srcs == [i \in DOMAIN docs |-> AppSourceItem(docs[i])]
         IN  [outcome |-> "answered", calls |-> << "sources", "render", "invoke" >>,
              context |-> ctx, gen |-> Blocking("ok", answer), sources |-> srcs,
              sent |-> Response(answer, srcs)]

\* query answering a failure of chain.invoke with an empty answer
query_answer_SwallowsError(docs, llm) ==
    LET ctx == render_context(docs, CONTEXT_CHARS_PER_DOC)
        answer == IF llm.tag = "raise" THEN << >> ELSE Strip(llm.text)
        srcs == [i \in DOMAIN docs |-> AppSourceItem(docs[i])]
    IN  [outcome |-> "answered", calls |-> << "render", "invoke", "sources" >>,
         context |-> ctx, gen |-> Blocking(llm.tag, answer), sources |-> srcs,
         sent |-> Response(answer, srcs)]

\* query of src/app/main.py, lines 49-77
query_answer(docs, llm) ==
    LET ctx == render_context(docs, CONTEXT_CHARS_PER_DOC) IN
    IF llm.tag = "raise"
    THEN [outcome |-> "llm_error", calls |-> << "render", "invoke" >>,
          context |-> ctx, gen |-> Blocking("raise", << >>), sources |-> << >>,
          sent |-> ErrorResponse("llm_error")]
    ELSE LET answer == Strip(llm.text)
             srcs == [i \in DOMAIN docs |-> AppSourceItem(docs[i])]
         IN  [outcome |-> "answered", calls |-> << "render", "invoke", "sources" >>,
              context |-> ctx, gen |-> Blocking("ok", answer), sources |-> srcs,
              sent |-> Response(answer, srcs)]

\* query of src/main.py, lines 182-187
legacy_query_search(req, res) ==
    IF ~LegacyValidRequest(req)
    THEN [pc |-> "done", outcome |-> "validation_error", calls |-> << >>,
          raw |-> << >>, searched |-> "none",
          sent |-> ErrorResponse("validation_error")]
    ELSE
    LET found == legacy_os_search(res) IN
        IF found.tag = "raise"
        THEN [pc |-> "done", outcome |-> "search_error", calls |-> << "search" >>,
              raw |-> << >>, searched |-> res.tag,
              sent |-> ErrorResponse("search_error")]
        ELSE IF found.out = << >>
        THEN [pc |-> "done", outcome |-> "no_results", calls |-> << "search" >>,
              raw |-> << >>, searched |-> res.tag,
              sent |-> Response(Lit("I couldn't find anything relevant."), << >>)]
        ELSE [pc |-> "rerank", outcome |-> "none", calls |-> << "search" >>,
              raw |-> found.out, searched |-> res.tag, sent |-> << >>]

\* query of src/main.py, line 190
legacy_query_rerank(req, passages, ans, client) ==
    LET ret == legacy_call_reranker(passages, req.top_k, ans, client)
        rec == RerankRecord(ret, ans, "pooled")
    IN  IF ret.tag = "raise"
        THEN [pc |-> "done", outcome |-> RerankOutcome(ret), rr |-> rec,
              reranked |-> << >>, sent |-> ErrorResponse(RerankOutcome(ret))]
        ELSE [pc |-> "answer", outcome |-> "none", rr |-> rec,
              reranked |-> ret.docs, sent |-> << >>]

\* query of src/main.py, lines 193-212
legacy_query_answer(docs, llm) ==
    LET prompt == build_gemini_prompt(docs) IN
    IF prompt.tag = "raise"
    THEN [outcome |-> "internal_error", calls |-> << "render" >>,
          context |-> << >>, gen |-> NoGen, sources |-> << >>,
          sent |-> ErrorResponse("internal_error")]
    ELSE IF llm.tag = "raise"
    THEN [outcome |-> "llm_error", calls |-> << "render", "invoke" >>,
          context |-> prompt.blocks, gen |-> Blocking("raise", << >>),
          sources |-> << >>, sent |-> ErrorResponse("llm_error")]
    ELSE LET answer == Strip(llm.text)
             srcs == [i \in DOMAIN docs |-> LegacySourceItem(docs[i])]
         IN  [outcome |-> "answered", calls |-> << "render", "invoke", "sources" >>,
              context |-> prompt.blocks, gen |-> Blocking("ok", answer),
              sources |-> srcs, sent |-> Response(answer, srcs)]

-----------------------------------------------------------------------------
(* The state machine                                                        *)

Init ==
    /\ program \in { "chainlit", "app", "legacy" }
    /\ ALWAYS_RAG \in BOOLEAN
    /\ top_k_cfg \in 1..MaxTopK
    /\ program # "chainlit" => (ALWAYS_RAG = FALSE /\ top_k_cfg = 1)
    /\ http = "none"
    /\ history = << >>
    /\ pc = IF program = "chainlit" THEN "nochat" ELSE "idle"
    /\ request = << >> /\ clar = NoClar /\ q = << >> /\ final_query = << >>
    /\ history_text = << >> /\ raw = << >> /\ searched = "none"
    /\ rr = [tag |-> "none"] /\ inflight = NoPost
    /\ reranked = << >> /\ context = << >> /\ gen = NoGen
    /\ sources = << >> /\ sent = << >> /\ calls = << >> /\ outcome = "none"
    /\ fn = [op |-> "none"]

config_vars == << program, ALWAYS_RAG, top_k_cfg, fn >>

turn_vars == << request, clar, q, final_query, history_text, raw, searched, rr, reranked,
                context, gen, sources, sent, calls, outcome >>

\* on_chat_start of this session, cl_app.py:133-145
on_chat_start ==
    /\ program = "chainlit" /\ pc \in { "nochat", "ended" }
    /\ http' = "open"
    /\ history' = << >>
    /\ pc' = "idle"
    /\ request' = << >> /\ clar' = NoClar /\ q' = << >> /\ final_query' = << >>
    /\ history_text' = << >> /\ raw' = << >> /\ searched' = "none"
    /\ rr' = [tag |-> "none"] /\ inflight' = NoPost
    /\ reranked' = << >> /\ context' = << >> /\ gen' = NoGen
    /\ sources' = << >> /\ calls' = << >> /\ outcome' = "none"
    /\ sent' = << Message(Lit("Welcome to Bio-RAG")) >>
    /\ UNCHANGED config_vars

\* on_chat_end of this session, cl_app.py:148-157; the session and what it
\* held are discarded with it
on_chat_end ==
    /\ program = "chainlit" /\ pc \in { "idle", "done" }
    /\ http' = "none"
    /\ pc' = "ended"
    /\ history' = << >>
    /\ request' = << >> /\ clar' = NoClar /\ q' = << >> /\ final_query' = << >>
    /\ history_text' = << >> /\ raw' = << >> /\ searched' = "none"
    /\ rr' = [tag |-> "none"] /\ inflight' = NoPost
    /\ reranked' = << >> /\ context' = << >> /\ gen' = NoGen
    /\ sources' = << >> /\ sent' = << >> /\ calls' = << >> /\ outcome' = "none"
    /\ UNCHANGED config_vars

\* on_chat_start of another session of the process: it sets the shared http
other_chat_start ==
    /\ program = "chainlit" /\ http = "none"
    /\ http' = "open"
    /\ UNCHANGED << config_vars, history, pc, turn_vars, inflight >>

\* on_chat_end of another session of the process, cl_app.py:148-157: it
\* closes the shared http, also under a call of this session that holds it
other_chat_end ==
    /\ program = "chainlit" /\ http = "open"
    /\ http' = "none"
    /\ inflight' = ClosedUnder(inflight)
    /\ UNCHANGED << config_vars, history, pc, turn_vars >>

\* on_message, lines 180-227
on_message_clarify ==
    /\ program = "chainlit" /\ pc = "idle"
    /\ \E c \in Utterances : \E ans \in ClarifierAnswers :
         \E r \in { ClarifyPhase(c, history, ALWAYS_RAG, ans) } :
         /\ request' = c /\ clar' = r.clar
         /\ q' = r.q /\ final_query' = r.final_query
         /\ history_text' = r.history_text
         /\ history' = r.history
         /\ calls' = r.calls /\ sent' = r.sent
         /\ outcome' = r.outcome /\ pc' = r.pc
    /\ raw' = << >> /\ searched' = "none"
    /\ rr' = [tag |-> "none"] /\ inflight' = NoPost /\ reranked' = << >>
    /\ context' = << >> /\ gen' = NoGen /\ sources' = << >>
    /\ UNCHANGED << config_vars, http >>

\* a further message of the session, while its log is below the model's bound
on_message_new_turn ==
    /\ Len(history) < MaxHistory
    /\ on_message_clarify

\* on_message, lines 230-250
on_message_search ==
    /\ program = "chainlit" /\ pc = "search"
    /\ \E res \in SearchAnswers("chainlit") :
         \E r \in { SearchPhase(q, history, res) } :
         /\ raw' = r.raw /\ searched' = r.searched
         /\ history' = r.history
         /\ calls' = Append(calls, "search")
         /\ sent' = sent \o r.sent
         /\ outcome' = r.outcome /\ pc' = r.pc
    /\ UNCHANGED << config_vars, http, request, clar, q, final_query, history_text,
                    rr, inflight, reranked, context, gen, sources >>

\* on_message, lines 253-262: call_reranker is called and awaits its post;
\* other handlers of the process run meanwhile
on_message_rerank_begin ==
    /\ program = "chainlit" /\ pc = "rerank"
    /\ inflight' = PostBegin(http)
    /\ pc' = "reranking"
    /\ UNCHANGED << config_vars, http, history, turn_vars >>

\* on_message, lines 259-272: the post is over and the step ends
on_message_rerank ==
    /\ program = "chainlit" /\ pc = "reranking"
    /\ \E ans \in ScorerAnswers : \E got \in PostOutcomes(inflight, ans) :
         \E r \in { RerankPhase(raw, top_k_cfg, inflight.client, got) } :
         /\ rr' = r.rr
         /\ inflight' = [inflight EXCEPT !.tag = "done", !.lost = (got # ans)]
         /\ reranked' = r.reranked
         /\ calls' = Append(calls, "rerank")
         /\ sent' = sent \o r.sent
         /\ outcome' = r.outcome /\ pc' = r.pc
    /\ UNCHANGED << config_vars, http, history, request, clar, q, final_query,
                    history_text, raw, searched, context, gen, sources >>

\* on_message, lines 275-325
on_message_answer ==
    /\ program = "chainlit" /\ pc = "answer"
    /\ \E so \in StreamAnswers : \E fb \in InvokeAnswers :
         \E r \in { AnswerPhase(q, final_query, history_text, history,
                              reranked, so, fb) } :
         /\ context' = r.context
         /\ gen' = r.gen
         /\ sources' = r.sources
         /\ history' = r.history
         /\ calls' = calls \o r.calls
         /\ sent' = sent \o r.sent
         /\ outcome' = r.outcome /\ pc' = r.pc
    /\ UNCHANGED << config_vars, http, request, clar, q, final_query, history_text,
                    raw, searched, rr, inflight, reranked >>

\* _startup of src/app/main.py:16-19 and src/main.py:80-83
_startup ==
    /\ program \in { "app", "legacy" } /\ http = "none"
    /\ pc \in { "idle", "done" }
    /\ http' = "open"
    /\ UNCHANGED << config_vars, history, pc, turn_vars, inflight >>

\* _shutdown of src/app/main.py:22-27 and src/main.py:86-91
_shutdown ==
    /\ program \in { "app", "legacy" } /\ http = "open"
    /\ pc \in { "idle", "done" }
    /\ http' = "none"
    /\ UNCHANGED << config_vars, history, pc, turn_vars, inflight >>

\* POST /query: validation, search and the checks before the rerank
post_query_search ==
    /\ program \in { "app", "legacy" } /\ pc = "idle"
    /\ \E req \in Requests : \E res \in SearchAnswers(program) :
         \E r \in { IF program = "app" THEN query_search(req, http, res)
                  ELSE legacy_query_search(req, res) } :
             /\ request' = req /\ clar' = NoClar
             /\ q' = req.question /\ final_query' = req.question
             /\ raw' = r.raw /\ searched' = r.searched /\ sent' = r.sent /\ calls' = r.calls
             /\ outcome' = r.outcome /\ pc' = r.pc
    /\ rr' = [tag |-> "none"] /\ inflight' = NoPost
    /\ reranked' = << >> /\ context' = << >>
    /\ gen' = NoGen /\ sources' = << >>
    /\ UNCHANGED << config_vars, http, history, history_text >>

\* POST /query: the rerank
post_query_rerank ==
    /\ program \in { "app", "legacy" } /\ pc = "rerank"
    /\ \E ans \in ScorerAnswers :
         \E r \in { IF program = "app" THEN query_rerank(request, raw, ans)
                  ELSE legacy_query_rerank(request, raw, ans, http) } :
             /\ rr' = r.rr
             /\ reranked' = r.reranked
             /\ calls' = Append(calls, "rerank")
             /\ sent' = sent \o r.sent
             /\ outcome' = r.outcome /\ pc' = r.pc
    /\ UNCHANGED << config_vars, http, history, request, clar, q, final_query,
                    history_text, raw, searched, inflight, context, gen, sources >>

\* POST /query: context, generation and the response
post_query_answer ==
    /\ program \in { "app", "legacy" } /\ pc = "answer"
    /\ \E llm \in InvokeAnswers :
         \E r \in { IF program = "app" THEN query_answer(reranked, llm)
                  ELSE legacy_query_answer(reranked, llm) } :
             /\ context' = r.context
             /\ gen' = r.gen
             /\ sources' = r.sources
             /\ calls' = calls \o r.calls
             /\ sent' = sent \o r.sent
             /\ outcome' = r.outcome
    /\ pc' = "done"
    /\ UNCHANGED << config_vars, http, history, request, clar, q, final_query,
                    history_text, raw, searched, rr, inflight, reranked >>

\* the handler has returned: its locals are gone, and the session or the
\* server waits for the next message or request
handler_return ==
    /\ pc = "done"
    /\ pc' = "idle"
    /\ request' = << >> /\ clar' = NoClar /\ q' = << >> /\ final_query' = << >>
    /\ history_text' = << >> /\ raw' = << >> /\ searched' = "none"
    /\ rr' = [tag |-> "none"] /\ inflight' = NoPost
    /\ reranked' = << >> /\ context' = << >> /\ gen' = NoGen
    /\ sources' = << >> /\ sent' = << >> /\ calls' = << >> /\ outcome' = "none"
    /\ UNCHANGED << config_vars, http, history >>

Next ==
    \/ on_chat_start
    \/ on_chat_end
    \/ other_chat_start
    \/ other_chat_end
    \/ on_message_new_turn
    \/ on_message_search
    \/ on_message_rerank_begin
    \/ on_message_rerank
    \/ on_message_answer
    \/ _startup
    \/ _shutdown
    \/ post_query_search
    \/ post_query_rerank
    \/ post_query_answer
    \/ handler_return

Spec == Init /\ [][Next]_vars

-----------------------------------------------------------------------------
(* Function-level specifications: one function applied to every input of a  *)
(* bounded set.  The session's variables stay parked.                       *)

NoTurn ==
    /\ pc = "parked" /\ request = << >> /\ clar = NoClar /\ q = << >> /\ final_query = << >>
    /\ history_text = << >> /\ raw = << >> /\ searched = "none"
    /\ rr = [tag |-> "none"] /\ inflight = NoPost
    /\ reranked = << >> /\ context = << >> /\ gen = NoGen
    /\ sources = << >> /\ sent = << >> /\ calls = << >> /\ outcome = "none"

Parked ==
    /\ program = "none" /\ ALWAYS_RAG = FALSE /\ top_k_cfg = 1 /\ http = "none"
    /\ history = << >> /\ NoTurn

session_vars == << program, ALWAYS_RAG, top_k_cfg, http, history, pc, request, clar, q,
                   final_query, history_text, raw, searched, rr, inflight, reranked,
                   context, gen, sources, sent, calls, outcome >>

\* the candidate batches os_search can hand to call_reranker
Batches(prog) == { search_of(prog, [tag |-> "ok", hits |-> h]).out : h \in HitLists(prog) }

RerankInit ==
    /\ Parked
    /\ \E prog \in { "app", "legacy" } :
       \E passages \in Batches(prog) :
       \E top_k \in 1..MaxTopK :
       \E ans \in ScorerAnswers :
       \E client \in { "open", "none" } :
          /\ prog = "app" => client = "open"
          /\ fn = [op |-> "call_reranker", prog |-> prog, passages |-> passages,
                   top_k |-> top_k, ans |-> ans, client |-> client, done |-> FALSE]

\* the call returns or raises
RerankCall ==
    /\ fn.op = "call_reranker" /\ ~fn.done
    /\ fn' = [op |-> "call_reranker", prog |-> fn.prog, passages |-> fn.passages,
              top_k |-> fn.top_k, ans |-> fn.ans, client |-> fn.client,
              done |-> TRUE,
              ret |-> rerank_of(fn.prog, fn.passages, fn.top_k, fn.ans, fn.client)]
    /\ UNCHANGED session_vars

SpecRerank == RerankInit /\ [][RerankCall]_vars

\* texts over a small alphabet with blanks
TextChars == { "a", "b", " " }

RenderInit ==
    /\ Parked
    /\ \E text \in SeqsUpTo(TextChars, MaxTextLen) :
       \E max_chars \in 0..MaxLimit :
          fn = [op |-> "render_context", docs |-> << [id |-> "A", text |-> text] >>,
                max_chars |-> max_chars, done |-> FALSE]

RenderCall ==
    /\ fn.op = "render_context" /\ ~fn.done
    /\ fn' = [op |-> "render_context", docs |-> fn.docs, max_chars |-> fn.max_chars,
              done |-> TRUE, ret |-> render_context(fn.docs, fn.max_chars)]
    /\ UNCHANGED session_vars

SpecRender == RenderInit /\ [][RenderCall]_vars

-----------------------------------------------------------------------------
(* One turn of a session that has had earlier turns                         *)

MaxLog == 3

\* the log of a session after exchanges of "hi" and "ok?": a user entry alone
\* is left by a turn that found nothing (cl_app.py:248), a pair by a
\* clarifying turn (cl_app.py:219-220)
Log(n) ==
    [i \in 1..n |-> IF i % 2 = 1 THEN UserTurn(<< "h", "i" >>)
                    ELSE AssistantTurn(<< "o", "k", "?" >>)]

SessionLogs == { Log(n) : n \in 0..MaxLog }

SessionInit ==
    /\ program = "chainlit"
    /\ ALWAYS_RAG \in BOOLEAN
    /\ top_k_cfg = 1
    /\ http = "open"
    /\ history \in SessionLogs
    /\ pc = "idle"
    /\ request = << >> /\ clar = NoClar /\ q = << >> /\ final_query = << >>
    /\ history_text = << >> /\ raw = << >> /\ searched = "none"
    /\ rr = [tag |-> "none"] /\ inflight = NoPost
    /\ reranked = << >> /\ context = << >> /\ gen = NoGen
    /\ sources = << >> /\ sent = << >> /\ calls = << >> /\ outcome = "none"
    /\ fn = [op |-> "none"]

SessionNext ==
    \/ on_message_clarify
    \/ on_message_search
    \/ on_message_rerank_begin
    \/ on_message_rerank
    \/ on_message_answer

SpecSession == SessionInit /\ [][SessionNext]_vars

-----------------------------------------------------------------------------
(* _format_history applied to the logs of a bounded set                     *)

MaxTurns == 2

\* entries of a log: contents with blanks around them and an empty one
LogEntries ==
    { UserTurn(<< "h", "i" >>), AssistantTurn(<< " ", "o", "k", " " >>),
      AssistantTurn(<< >>) }

FormatInit ==
    /\ Parked
    /\ \E hist \in SeqsUpTo(LogEntries, MaxLog) :
       \E turns \in 0..MaxTurns :
          fn = [op |-> "_format_history", hist |-> hist, turns |-> turns,
                done |-> FALSE]

FormatCall ==
    /\ fn.op = "_format_history" /\ ~fn.done
    /\ fn' = [op |-> "_format_history", hist |-> fn.hist, turns |-> fn.turns,
              done |-> TRUE, ret |-> _format_history(fn.hist, fn.turns)]
    /\ UNCHANGED session_vars

SpecFormat == FormatInit /\ [][FormatCall]_vars

-----------------------------------------------------------------------------
(* os_search of retrieval.py applied to the answers of a bounded set        *)

MaxSearchHits == 2

\* the abstract of a _source: absent, blank, or text with a blank before it
SourceAbstracts == { NoneVal, << " " >>, << " ", "f", "o", "o" >> }

\* the message of a _source: absent, JSON of each kind, broken JSON, plain
\* text, or blank
SourceMessages ==
    { NoneVal, MsgJsonB, << " " >> \o MsgJsonT, MsgJsonBlank, MsgJsonEmpty,
      MsgJsonList, << "{", "x" >>, << " ", "b", "a", "z" >>, << " " >> }

\* the _source with these fields; NoneVal stands for a field that is absent
SourceWith(abstract, message) ==
    MergeDicts(IF abstract = NoneVal THEN << >> ELSE [abstract |-> abstract],
               IF message = NoneVal THEN << >> ELSE [message |-> message])

IndexSources == { SourceWith(a, m) : a \in SourceAbstracts, m \in SourceMessages }

\* answers of the index of at most MaxSearchHits hits, best first
IndexAnswers ==
    { [tag |-> "raise"] } \cup
    { [tag |-> "ok",
       hits |-> [i \in DOMAIN srcs |->
                   [_id |-> HitOrder[i], _score |-> ScoreOf(HitOrder[i]),
                    _source |-> srcs[i]]]] :
        srcs \in SeqsUpTo(IndexSources, MaxSearchHits) }

SearchInit ==
    /\ Parked
    /\ \E res \in IndexAnswers : fn = [op |-> "os_search", res |-> res, done |-> FALSE]

SearchCall ==
    /\ fn.op = "os_search" /\ ~fn.done
    /\ fn' = [op |-> "os_search", res |-> fn.res, done |-> TRUE,
              ret |-> os_search(fn.res)]
    /\ UNCHANGED session_vars

SpecSearch == SearchInit /\ [][SearchCall]_vars

-----------------------------------------------------------------------------
(* Claims about os_search, under SpecSearch                                 *)

SearchDone == fn.op = "os_search" /\ fn.done

\* the first text of the list that is not empty, or the empty text
FirstNonEmpty(texts) ==
    IF \A i \in DOMAIN texts : texts[i] = << >> THEN << >>
    ELSE texts[CHOOSE i \in DOMAIN texts :
                  texts[i] # << >> /\ \A j \in 1..(i - 1) : texts[j] = << >>]

\* the object a message holds when it is the JSON of an object, else nothing
EmbeddedObject(src) ==
    IF "message" \in DOMAIN src /\ JsonLoads(Strip(src.message)).tag = "dict"
    THEN JsonLoads(Strip(src.message)).v
    ELSE << >>

\* the body text of a hit: the structured abstract, then the abstract (or,
\* without one, the text) of the object in the message, then the message
\* itself, each trimmed
ResolvedText(src) ==
    LET obj == EmbeddedObject(src) IN
    FirstNonEmpty(<< Strip(GetStr(src, "abstract")),
                     Strip(IF Truthy(Get(obj, "abstract")) THEN obj.abstract
                           ELSE GetStr(obj, "text")),
                     IF "message" \in DOMAIN src THEN Strip(src.message) ELSE << >> >>)

\* the hits whose resolved text is not empty, in the order of the index
HitsWithText ==
    Filter(fn.res.hits, { i \in DOMAIN fn.res.hits :
                            ResolvedText(fn.res.hits[i]._source) # << >> })

\* C23: every candidate os_search returns has a non-empty text, resolved in
\* the order structured abstract, abstract/text of the JSON in the message,
\* raw message; hits whose resolved text is empty are dropped and the others
\* keep the order of the index.
C23_CandidatesHaveText ==
    (SearchDone /\ fn.res.tag = "ok")
        => /\ fn.ret.tag = "ok"
           /\ Len(fn.ret.out) = Len(HitsWithText)
           /\ \A j \in DOMAIN fn.ret.out :
                 /\ fn.ret.out[j].text # << >>
                 /\ fn.ret.out[j].id = HitsWithText[j]._id
                 /\ fn.ret.out[j].text = ResolvedText(HitsWithText[j]._source)

\* the first hit has nothing but blanks and is dropped; the second has a
\* blank abstract and the JSON message of B: its candidate has B's abstract
C23_Witness ==
    /\ SearchDone /\ fn.res.tag = "ok" /\ Len(fn.res.hits) = 2
    /\ fn.res.hits[1]._source = [abstract |-> << " " >>, message |-> << " " >>]
    /\ fn.res.hits[2]._source = [abstract |-> << " " >>, message |-> MsgJsonB]
    /\ Len(fn.ret.out) = 1
    /\ fn.ret.out[1].id = "B" /\ fn.ret.out[1].text = << "b", "a", "r" >>

-----------------------------------------------------------------------------
(* Claims about call_reranker, under SpecRerank                             *)

RerankDone == fn.op = "call_reranker" /\ fn.done

BatchIds(passages) == { passages[i].id : i \in DOMAIN passages }

\* the list the scorer's 200 answer carries
AnswerList(ans) == RankedOf(ans.body.data)

\* a 200 answer whose ranked list is empty, missing or unparseable
SoftFail(ans) ==
    /\ ans.tag = "response" /\ ans.status_code = 200
    /\ \/ ~ans.body.json
       \/ AnswerList(ans) = << >>
       \/ \E i \in DOMAIN AnswerList(ans) : ~IsDict(AnswerList(ans)[i])

\* C1: when the scorer soft-fails (a 200 answer whose ranked list is empty,
\* missing or unparseable), call_reranker returns exactly the first
\* min(n, topK) candidates, in retrieval order and unmodified.
C1_SoftFailPassThrough ==
    (RerankDone /\ fn.client = "open" /\ SoftFail(fn.ans))
        => /\ fn.ret.tag = "ok"
           /\ Len(fn.ret.docs) = Min(Len(fn.passages), fn.top_k)
           /\ fn.ret.docs = SubSeq(fn.passages, 1, Min(Len(fn.passages), fn.top_k))

\* C4: every document call_reranker returns, in either implementation, has
\* the id of a candidate of the input batch.
C4_IdsFromBatch ==
    (RerankDone /\ fn.ret.tag = "ok")
        => \A j \in DOMAIN fn.ret.docs :
              /\ "id" \in DOMAIN fn.ret.docs[j]
              /\ fn.ret.docs[j].id \in BatchIds(fn.passages)

\* the entries of the first topK returned that name a candidate of the batch
KnownEntries ==
    LET items == SubSeq(AnswerList(fn.ans), 1, Min(fn.top_k, Len(AnswerList(fn.ans))))
    IN  Filter(items, { i \in DOMAIN items :
                          items[i].id \in BatchIds(fn.passages) })

RankedAnswer(ans) ==
    /\ ans.tag = "response" /\ ans.status_code = 200 /\ ans.body.json
    /\ AnswerList(ans) # << >>
    /\ \A i \in DOMAIN AnswerList(ans) : IsDict(AnswerList(ans)[i])

\* the ids of a list of documents, in order
IdsOf(docs) == [j \in DOMAIN docs |-> docs[j].id]

\* C24: when the scorer answers 200 with a non-empty ranked list, the output
\* of retrieval.py's call_reranker is exactly the entries among the first
\* topK returned whose id is in the batch, in the scorer's order, with no
\* candidate the scorer did not return; the first topK candidates are passed
\* through only when the scorer's list is empty or unparseable.
C24_OnlyWhatTheScorerReturned ==
    (RerankDone /\ fn.prog = "app" /\ RankedAnswer(fn.ans))
        => /\ fn.ret.tag = "ok"
           /\ fn.ret.path # "fallback"
           /\ IdsOf(fn.ret.docs) = IdsOf(KnownEntries)

\* the call returned the empty list without a request
ReturnedEmptyAtOnce ==
    fn.ret.tag = "ok" /\ fn.ret.docs = << >> /\ fn.ret.posts = 0

-----------------------------------------------------------------------------
(* Claims about render_context, under SpecRender                            *)

RenderDone == fn.op = "render_context" /\ fn.done

\* C8: for a text of length L and a limit M the rendered body has length
\* min(L, M); when L > M it is the first M-1 characters and one ellipsis,
\* and when L <= M it is the text unchanged.
C8_Truncation ==
    LET text == fn.docs[1].text
        L == Len(text)
        M == fn.max_chars
        body == fn.ret[1].text
    IN  (RenderDone /\ M >= 1 /\ text = Strip(text))
            => /\ Len(body) = Min(L, M)
               /\ L > M => body = SubSeq(text, 1, M - 1) \o << ELLIPSIS >>
               /\ L <= M => body = text

-----------------------------------------------------------------------------
(* Claims about a turn, under Spec                                          *)

\* the stage has been invoked in the turn in progress
Called(stage) == \E i \in DOMAIN calls : calls[i] = stage

\* the turn has sent an answer's sources or a 200 response
AnswerSent == \E i \in DOMAIN sent : sent[i].type \in { "sources", "response" }

\* the rerank of this turn posted to the scorer and the post ended this way
Posted(how) == rr.tag # "none" /\ rr.posts = 1 /\ rr.answer = how

\* nothing after the rerank has run in this turn
NothingAfterRerank ==
    /\ ~Called("render") /\ ~Called("stream") /\ ~Called("invoke")
    /\ ~Called("sources")
    /\ reranked = << >> /\ context = << >> /\ gen = NoGen /\ sources = << >>
    /\ ~AnswerSent

\* C2, as stated: when the post to the scorer fails at the transport level
\* the rerank does not raise and the turn is not aborted; the rerank returns
\* the first topK candidates and the turn goes on.
C2_TransportFailureFallsBack ==
    Posted("transport_error")
        => /\ rr.tag = "ok"
           /\ reranked # << >> /\ reranked = Take(raw, Len(reranked))
           /\ outcome \notin { "rerank_error", "internal_error" }

\* C2, amended: when the post to the scorer fails at the transport level
\* call_reranker raises and the turn ends there with an error (the reranker
\* error in cl_app.py and src/app/main.py, the unhandled exception in
\* src/main.py): no fallback list, no context, no generation, no sources.
C2_TransportFailureAborts ==
    Posted("transport_error")
        => /\ rr.tag = "raise"
           /\ pc = "done"
           /\ outcome = IF program = "legacy" THEN "internal_error"
                        ELSE "rerank_error"
           /\ NothingAfterRerank

C2_Witness ==
    /\ program = "chainlit" /\ Posted("transport_error")
    /\ Len(raw) = 2 /\ pc = "done" /\ outcome = "rerank_error"
    /\ sent = << Message(Lit("Reranker error")) >>

\* C3: when the scorer answers with a status other than 200 the turn is
\* aborted with a reranker error: the context renderer and the generator are
\* not invoked in that turn, and no answer and no sources are produced.
C3_Non200Aborts ==
    Posted("non_200")
        => /\ rr.tag = "raise"
           /\ pc = "done" /\ outcome = "rerank_error"
           /\ NothingAfterRerank

C3_Witness ==
    /\ program = "app" /\ Posted("non_200")
    /\ Len(raw) = 2 /\ pc = "done" /\ outcome = "rerank_error"
    /\ sent = ErrorResponse("rerank_error")

\* the sources the turn's response carries
SourcesSent ==
    LET withSources == { i \in DOMAIN sent : sent[i].type \in { "sources", "response" } }
    IN  IF withSources = { } THEN << >>
        ELSE LET m == sent[CHOOSE i \in withSources : TRUE]
             IN  IF m.type = "sources" THEN m.elements ELSE m.sources

\* C6: in a turn that returns an answer, the sources returned to the client,
\* the reranked list and the citation headers of the context are equally
\* many; on the empty-retrieval path all three are zero.
C6_CountsAgree ==
    (pc = "done" /\ outcome \in { "answered", "no_results" })
        => /\ SourcesSent = sources
           /\ Len(sources) = Len(reranked)
           /\ Len(context) = Len(reranked)
           /\ outcome = "no_results" => Len(sources) = 0

C6_Witness ==
    /\ program = "chainlit" /\ pc = "done" /\ outcome = "answered"
    /\ rr.tag = "ok" /\ rr.path = "merge"
    /\ Len(SourcesSent) = 2 /\ Len(reranked) = 2 /\ Len(context) = 2

\* the header and body of a context block are those of the source record
HeaderDescribes(h, s) ==
    /\ h.title = Strip(OrStr(s.title, Lit("Untitled")))
    /\ h.text = Strip(GetStr(s, "text"))

\* C7: for a non-empty reranked list the citation numbers of the context are
\* exactly 1..len(sources), increasing, and the block numbered i describes the
\* i-th source: the i-th reranked document.
C7_CitationsMatchSources ==
    (program \in { "chainlit", "app" } /\ pc = "done" /\ outcome = "answered"
        /\ reranked # << >>)
        => /\ DOMAIN context = 1..Len(sources)
           /\ \A i \in DOMAIN context :
                 /\ context[i].num = i
                 /\ sources[i].id = reranked[i].id
                 /\ HeaderDescribes(context[i], sources[i])

C7_Witness ==
    /\ program = "app" /\ pc = "done" /\ outcome = "answered"
    /\ Len(sources) = 2
    /\ sources[1].id = "B" /\ sources[2].id = "A"
    /\ context[1].num = 1 /\ context[1].title = Lit("Untitled")
    /\ context[2].num = 2 /\ context[2].title = << "T", "a" >>

\* the clarifier's reply as on_message reads it: trimmed, empty if the call
\* failed
ClarifierReply == IF clar.tag = "raise" THEN << >> ELSE Strip(clar.text)

\* C9: with ALWAYS_RAG off and no slash command, a reply that starts with the
\* ready marker sends the turn to retrieval with the trimmed remainder as the
\* query, or the utterance when the remainder is empty; any other reply,
\* empty and failed calls included, ends the turn with a conversational
\* message and the retriever is not called.
C9_ClarifierDecision ==
    (program = "chainlit" /\ clar.tag # "none")
        => IF StartsWith(ClarifierReply, READY_PREFIX)
           THEN /\ pc = "search" \/ Called("search")
                /\ LET rest == Strip(Drop(ClarifierReply, Len(READY_PREFIX)))
                   IN  final_query = IF rest # << >> THEN rest ELSE q
           ELSE /\ pc = "done" /\ ~Called("search")
                /\ outcome \in { "clarifying", "clarify_fallback" }
                /\ Len(sent) = 1 /\ sent[1].type = "message"
                /\ sent[1].content =
                      IF ClarifierReply # << >> THEN ClarifierReply
                      ELSE Lit("Could you clarify a bit more?")

C9_Witness ==
    /\ program = "chainlit" /\ ~ALWAYS_RAG
    /\ clar = [tag |-> "ok", text |-> READY_PREFIX \o << " " >>]
    /\ q = << "h", "i" >> /\ final_query = q /\ Called("search")

\* C10: a message that starts with "/rag " goes to retrieval without the
\* clarifier being invoked, whatever ALWAYS_RAG is; the query is the trimmed
\* text after the command, or the whole utterance when that text is empty.
C10_SlashBypassesClarifier ==
    (program = "chainlit" /\ pc \in { "search", "rerank", "answer", "done" }
        /\ StartsWith(request, RAG_COMMAND))
        => /\ ~Called("clarifier") /\ clar = NoClar
           /\ outcome \notin { "clarifying", "clarify_fallback" }
           /\ LET rest == Strip(Drop(request, Len(RAG_COMMAND)))
              IN  final_query \in (IF rest # << >> THEN { rest }
                                   ELSE { request, Strip(request) })

\* the stages after the search have not run in this turn
NothingAfterSearch ==
    /\ ~Called("rerank") /\ rr.tag = "none"
    /\ NothingAfterRerank

\* the fixed answer of a turn that found nothing
NOTHING_FOUND == Lit("I couldn't find anything relevant.")

\* C11: when the retrieval returns no candidate the turn answers exactly
\* "I couldn't find anything relevant." with no sources, and neither the
\* reranker nor the generator is invoked in that turn.
C11_EmptyRetrieval ==
    (Called("search") /\ searched = "ok" /\ raw = << >>)
        => /\ pc = "done" /\ outcome = "no_results"
           /\ sent = IF program = "chainlit" THEN << Message(NOTHING_FOUND) >>
                     ELSE Response(NOTHING_FOUND, << >>)
           /\ ~Called("rerank") /\ rr.tag = "none"
           /\ ~Called("render") /\ ~Called("stream") /\ ~Called("invoke")
           /\ gen = NoGen /\ sources = << >>

C11_Witness ==
    /\ program = "chainlit" /\ Called("search") /\ searched = "ok" /\ raw = << >>
    /\ pc = "done" /\ sent = << Message(NOTHING_FOUND) >>

\* C12: when the call of the search index raises, the turn ends with a
\* search error: there are no candidates, and the reranker, the context
\* renderer and the generator are not invoked in that turn.
C12_SearchErrorAborts ==
    searched = "raise"
        => /\ pc = "done" /\ outcome = "search_error"
           /\ raw = << >>
           /\ sent = IF program = "chainlit" THEN << Message(Lit("Search error")) >>
                     ELSE ErrorResponse("search_error")
           /\ NothingAfterSearch

C12_Witness ==
    /\ program = "chainlit" /\ searched = "raise" /\ calls = << "clarifier", "search" >>
    /\ pc = "done" /\ outcome = "search_error"

-----------------------------------------------------------------------------
(* Claims about the generation, under Spec                                  *)

\* how many times the stage was invoked in the turn in progress
Times(stage) == Cardinality({ i \in DOMAIN calls : calls[i] = stage })

\* the generation phase of a chainlit turn is over
Generated == program = "chainlit" /\ gen.tag # "none"

\* the answer the turn recorded in the history
RecordedAnswer == history[Len(history)]

\* the text of the answer message the client is left with
ShownAnswer == sent[CHOOSE i \in DOMAIN sent : sent[i].type = "message"].content

\* C13: when chain.stream raises, before the first chunk or after some, one
\* blocking chain.invoke is issued with the same question, context and
\* history, and when it succeeds its full text is the turn's answer.
C13_StreamFallback ==
    (Generated /\ gen.stream_raised)
        => /\ Times("invoke") = 1
           /\ gen.invoke_in = gen.stream_in
           /\ gen.fallback = "ok"
                 => /\ pc = "done" /\ outcome = "answered"
                    /\ gen.content = gen.fallback_text
                    /\ ShownAnswer = gen.fallback_text
                    /\ RecordedAnswer = AssistantTurn(gen.fallback_text)

\* the stream gave one chunk and then raised; the fallback's text is the answer
C13_Witness ==
    /\ Generated /\ gen.stream_raised /\ gen.fallback = "ok"
    /\ gen.emitted = << << "x" >>, << "z" >> >>
    /\ gen.content = << "z" >> /\ outcome = "answered"

\* C14: in a turn that produces an answer the final answer text is the
\* concatenation, in order, of all the text emitted to the client during the
\* turn; after a stream that emitted chunks and then failed, what the client
\* received and the recorded answer are the same.
C14_AnswerIsWhatWasEmitted ==
    (Generated /\ pc = "done" /\ outcome = "answered" /\ gen.emitted # << >>)
        => /\ gen.content = Join(gen.emitted)
           /\ RecordedAnswer = AssistantTurn(Join(gen.emitted))

\* a generation whose every call raised
GenFailed == gen.tag = "raise"

\* C15, as stated: when the stream and the fallback both fail the turn ends
\* with a generation error, and no turn ends with a failure of the model or
\* an empty output of the model shown or recorded as a normal answer, empty
\* or placeholder.
C15_NoFailureNoEmptyAnswer ==
    /\ GenFailed => (pc = "done" /\ outcome = "llm_error")
    /\ (program \in { "chainlit", "app" } /\ pc = "done" /\ outcome = "answered")
          => /\ ~GenFailed
             /\ gen.content \notin { << >>, Lit("(No answer)") }

\* C15, amended: when every generation call of the turn raises, the turn ends
\* with a generation error, with no answer, no sources and nothing recorded
\* as the assistant's turn, and no answered turn has a failed generation; an
\* empty output of the model is not an error: cl_app.py shows and records
\* "(No answer)" when nothing was emitted.
C15_FailuresSurfaced ==
    /\ GenFailed
          => /\ pc = "done" /\ outcome = "llm_error"
             /\ sources = << >> /\ ~AnswerSent
             /\ sent[Len(sent)] \in { Message(Lit("LLM error")),
                                      ErrorResponse("llm_error")[1] }
             /\ \A i \in DOMAIN history : history[i].content # Lit("LLM error")
    /\ (pc = "done" /\ outcome = "answered") => ~GenFailed
    /\ (Generated /\ pc = "done" /\ outcome = "answered" /\ gen.emitted = << >>)
          => /\ gen.content = Lit("(No answer)")
             /\ RecordedAnswer = AssistantTurn(Lit("(No answer)"))

C15_Witness ==
    /\ Generated /\ gen.stream_raised /\ gen.fallback = "raise"
    /\ pc = "done" /\ outcome = "llm_error"
    /\ sent[Len(sent)] = Message(Lit("LLM error"))

-----------------------------------------------------------------------------
(* Claims about the session history, under SpecSession                      *)

\* a step that ends a chainlit turn
TurnEnds == program = "chainlit" /\ pc # "done" /\ pc' = "done"

\* s is a prefix of t
IsPrefix(s, t) == Len(s) <= Len(t) /\ SubSeq(t, 1, Len(s)) = s

\* C16, as stated: the history is read before the clarifier runs, and after
\* every completed turn (a clarifying reply, a final answer, the fixed
\* empty-result answer, the ask-for-clarification fallback) the user turn and
\* the assistant turn of the exchange have both been appended to it.
C16_BothTurnsAppended ==
    [][(TurnEnds /\ outcome' \in { "clarifying", "clarify_fallback",
                                   "no_results", "answered" })
          => /\ history_text' = _format_history(history, CHAT_HISTORY_TURNS)
             /\ history' = history \o << UserTurn(q'), AssistantTurn(ShownAnswer') >>]_vars

\* C16, amended: the history is read before the clarifier runs; a turn that
\* ends with a clarifying reply or a final answer appends the user turn and
\* the assistant turn; a turn that finds nothing appends the user turn alone;
\* the ask-for-clarification fallback and the turns that end in an error
\* append nothing.
C16_HistoryAppended ==
    [][TurnEnds
          => /\ outcome' # "empty_message"
                   => history_text' = _format_history(history, CHAT_HISTORY_TURNS)
             /\ history' = history \o
                   (IF outcome' \in { "clarifying", "answered" }
                    THEN << UserTurn(q'), AssistantTurn(ShownAnswer') >>
                    ELSE IF outcome' = "no_results" THEN << UserTurn(q') >>
                    ELSE << >>)]_vars

\* a turn on a log of two entries has ended with an answer: two more entries
C16_Witness ==
    /\ program = "chainlit" /\ pc = "done" /\ outcome = "answered"
    /\ Len(history) = 4
    /\ history[3] = UserTurn(q) /\ history[4] = AssistantTurn(gen.content)
    /\ Len(history_text) = 2

\* C17: the history of a session is append-only: the history before a step
\* of a turn is a prefix of the history after it, and formatting the recent
\* history for the prompt leaves the stored log as it was.
C17_AppendOnly ==
    [][/\ IsPrefix(history, history')
       /\ (pc = "idle" /\ outcome' \notin { "clarifying" }) => history' = history]_vars

\* a turn on a log of three entries has formatted it and appended to it
C17_Witness ==
    /\ program = "chainlit" /\ pc = "done" /\ outcome = "clarifying"
    /\ Len(history) = 5 /\ SubSeq(history, 1, 3) = Log(3)
    /\ Len(history_text) = 3

\* the outcomes of a turn that a failed stage aborted
AbortOutcomes == { "search_error", "rerank_error", "llm_error" }

\* C26: a turn of on_message that aborts with a search error, a reranker
\* error or a generation error leaves the session history as it was before
\* the turn: every step of the turn up to and including the one that aborts
\* it leaves the history unchanged.
C26_AbortLeavesHistory ==
    [][(outcome' \in AbortOutcomes \cup { "none" }) => history' = history]_vars

\* a turn on a log of three entries went through every stage and ended with
\* a generation error; the log is the one it started with
C26_Witness ==
    /\ program = "chainlit" /\ pc = "done" /\ outcome = "llm_error"
    /\ calls = << "clarifier", "search", "rerank", "render", "stream", "invoke" >>
    /\ history = Log(3)

-----------------------------------------------------------------------------
(* Claims about _format_history, under SpecFormat                           *)

FormatDone == fn.op = "_format_history" /\ fn.done

\* line i of the view is entry j of the log: its role, its content shortened
ViewOf(line, entry) ==
    line.role = entry.role /\ line.content = _shorten(entry.content, 1500)

\* the view is the last n entries of the log, in the log's order
ViewIsLast(n) ==
    /\ Len(fn.ret) = n
    /\ \A i \in 1..n : ViewOf(fn.ret[i], fn.hist[Len(fn.hist) - n + i])

\* C18, as stated: the view of the recent history holds at most maxTurns
\* entries, the most recent ones in chronological order, and none when
\* maxTurns is 0.
C18_AtMostMaxTurns ==
    FormatDone => ViewIsLast(Min(fn.turns, Len(fn.hist)))

\* C18, amended: the view holds at most 2 * maxTurns entries (maxTurns
\* exchanges of a user and an assistant entry), the most recent ones in
\* chronological order, and none when maxTurns is 0.
C18_AtMostTwiceMaxTurns ==
    FormatDone => ViewIsLast(Min(2 * fn.turns, Len(fn.hist)))

\* a log of three entries viewed with maxTurns = 1: its last two entries
C18_Witness ==
    /\ FormatDone /\ fn.turns = 1 /\ Len(fn.hist) = 3
    /\ fn.hist[2] = UserTurn(<< "h", "i" >>)
    /\ fn.hist[3] = AssistantTurn(<< " ", "o", "k", " " >>)
    /\ fn.ret = << [role |-> "user", content |-> << "h", "i" >>],
                   [role |-> "assistant", content |-> << "o", "k" >>] >>

-----------------------------------------------------------------------------
(* Claims about the order of the stages, under Spec                         *)

\* the place of a call in the pipeline: Clarifier, Retriever, Rerank-Merge,
\* Context Renderer, Generator (the stream and its blocking fallback), Source
\* Formatter
StageOf(call) ==
    CASE call = "clarifier" -> 1
      [] call = "search"    -> 2
      [] call = "rerank"    -> 3
      [] call = "render"    -> 4
      [] call \in { "stream", "invoke" } -> 5
      [] call = "sources"   -> 6

LastCall == calls[Len(calls)]

-----------------------------------------------------------------------------
(* Claims about the pooled client, under Spec                               *)

\* a step in which the handler comes to need the pooled client and the
\* module's http is None: in src/app/main.py after a search that found
\* candidates, in src/main.py and cl_app.py at the rerank
NeedsClientWhileDown ==
    /\ http = "none"
    /\ \/ program = "app" /\ pc = "idle" /\ pc' # "idle"
             /\ searched' = "ok" /\ raw' # << >>
       \/ program \in { "legacy", "chainlit" } /\ pc = "rerank" /\ pc' # "rerank"

\* C20: a turn or request that needs the pooled client of the reranker while
\* there is none (before startup or after release) ends at once with a
\* "not ready" error: it does not crash with an unhandled error and does not
\* go on as if the client were there.
C20_NotReady ==
    [][NeedsClientWhileDown => (pc' = "done" /\ outcome' = "not_ready")]_vars

-----------------------------------------------------------------------------
(* Claims about concurrent sessions, under Spec                             *)

\* the rerank of this turn awaited its post on the module's client, another
\* session's on_chat_end closed that client meanwhile, and the post raised
\* though the scorer would have answered
LostToOtherSession == inflight.tag = "done" /\ inflight.closed /\ inflight.lost

\* C21: no event of another session changes the outcome of this session's
\* turn in flight: the pooled client is not released while a call of this
\* session is using it, and no rerank call of this session fails because
\* another session ended.
C21_SessionsIndependent ==
    /\ inflight.tag # "none" => ~inflight.closed
    /\ ~(LostToOtherSession /\ rr.tag = "raise" /\ outcome = "rerank_error")

-----------------------------------------------------------------------------
(* Claims about the validation of a request, under Spec                     *)

\* the question of the turn in progress, as the client sent it
Question == IF program = "chainlit" THEN request ELSE request.question

\* a turn is in progress or has just ended
InTurn == pc \in { "search", "rerank", "reranking", "answer", "done" }

\* k or top_k of a /query request lies outside the range QueryRequest allows
OutOfRange ==
    /\ program \in { "app", "legacy" }
    /\ \/ request.k < 1 \/ request.top_k < 1 \/ request.top_k > 50
       \/ request.k > (IF program = "app" THEN 200 ELSE 100)

\* the turn was refused and contacted nothing
RejectedUntouched ==
    /\ pc = "done" /\ outcome \in { "validation_error", "empty_message" }
    /\ calls = << >> /\ clar = NoClar /\ searched = "none"
    /\ rr.tag = "none" /\ inflight = NoPost /\ gen = NoGen

\* C22: a request whose question is empty or blank, or whose k or top_k is
\* out of range, is rejected before any external call: the search index, the
\* reranker and the language model are not contacted for it.
C22_InvalidRejected ==
    (InTurn /\ (Strip(Question) = << >> \/ OutOfRange)) => RejectedUntouched

-----------------------------------------------------------------------------
(* Claims about the identifier in the context, under Spec                   *)

\* the external identifier os_search gave the document, or None
RetrievedPmid(d) == Get(d, "pmid")

\* C25: for every document os_search of retrieval.py produced with an
\* external identifier and that reaches render_context, header [i] carries the
\* identifier's annotation and a link, and that link is the url of the i-th
\* source record.
C25_HeaderCarriesIdentifier ==
    (program \in { "chainlit", "app" } /\ pc = "done" /\ outcome = "answered")
        => \A i \in DOMAIN reranked :
              Truthy(RetrievedPmid(reranked[i]))
                 => /\ context[i].pmid = RetrievedPmid(reranked[i])
                    /\ context[i].url # << >>
                    /\ context[i].url = sources[i].url

-----------------------------------------------------------------------------
(* Claims about the size of the reranked list, under Spec                   *)

\* the top_k the turn hands to call_reranker: cl_app.py:186-187,
\* src/app/main.py:38-39, src/main.py:190
TopKOfTurn ==
    CASE program = "chainlit" -> _cap(top_k_cfg, 1, _cap(DEFAULT_K, 1, 200))
      [] program = "app" -> Max(1, Min(request.top_k, Max(1, Min(request.k, 200))))
      [] OTHER -> request.top_k

\* C27: for a non-empty batch and topK >= 1 every normal return of
\* call_reranker has between 1 and topK documents, and whenever the
\* generator is invoked in a turn the reranked list it is grounded on is
\* non-empty and has at most topK documents: the context is never empty.
C27_GroundedOnOneToTopK ==
    /\ rr.tag = "ok"
          => /\ raw # << >> /\ TopKOfTurn >= 1
             /\ Len(reranked) \in 1..TopKOfTurn
    /\ (Called("stream") \/ Called("invoke"))
          => /\ rr.tag = "ok"
             /\ Len(reranked) \in 1..TopKOfTurn
             /\ Len(context) = Len(reranked)

\* three candidates, top_k 2, a scorer that names none of them: the generator
\* runs on the first two candidates
C27_Witness ==
    /\ program = "chainlit" /\ Called("stream")
    /\ Len(raw) = 3 /\ TopKOfTurn = 2
    /\ rr.tag = "ok" /\ rr.path = "fallback"
    /\ reranked = Take(raw, 2) /\ Len(context) = 2

====
